---- MODULE Spec2Model ----
(***************************************************************************)
(* Model of process_pdfs.py: the batch loop process_pdfs, the backend      *)
(* selection extract_pdf_outline, the three backends and the heading       *)
(* heuristics.  Text is a sequence of one-character strings, so that the   *)
(* Python string operations the code uses are computed, not assumed.       *)
(***************************************************************************)
EXTENDS Integers, Sequences, FiniteSets, TLC

(***************************************************************************)
(* Python string operations used by the code                               *)
(***************************************************************************)
LowerCase == <<"a","b","c","d","e","f","g","h","i","j","k","l","m",
               "n","o","p","q","r","s","t","u","v","w","x","y","z">>

UpperCase == <<"A","B","C","D","E","F","G","H","I","J","K","L","M",
               "N","O","P","Q","R","S","T","U","V","W","X","Y","Z">>

LowerSet == {LowerCase[i] : i \in 1..26}

UpperSet == {UpperCase[i] : i \in 1..26}

IsLowerChar(c) == c \in LowerSet

IsUpperChar(c) == c \in UpperSet

IsCased(c) == IsLowerChar(c) \/ IsUpperChar(c)

IsSpace(c) == c \in {" ", "\n", "\t"}

\* the sequence a function on 1..n is
Seq1(f) == <<>> \o f

UpperChar(c) ==
    IF IsLowerChar(c) THEN UpperCase[CHOOSE i \in 1..26 : LowerCase[i] = c] ELSE c

LowerChar(c) ==
    IF IsUpperChar(c) THEN LowerCase[CHOOSE i \in 1..26 : UpperCase[i] = c] ELSE c

Min(a, b) == IF a < b THEN a ELSE b

\* s[:n]
Cut(s, n) == SubSeq(s, 1, Min(n, Len(s)))

\* s.upper()
upper(s) == Seq1([i \in 1..Len(s) |-> UpperChar(s[i])])

\* s.isupper(): at least one cased character and no lower-case one
isupper(s) ==
    /\ \E i \in 1..Len(s) : IsCased(s[i])
    /\ \A i \in 1..Len(s) : ~IsLowerChar(s[i])

\* s.startswith(prefix)
startswith(s, prefix) ==
    /\ Len(prefix) <= Len(s)
    /\ SubSeq(s, 1, Len(prefix)) = prefix

\* s.endswith(suffix)
endswith(s, suffix) ==
    /\ Len(suffix) <= Len(s)
    /\ SubSeq(s, Len(s) - Len(suffix) + 1, Len(s)) = suffix

\* c in s
contains(s, c) == \E i \in 1..Len(s) : s[i] = c

\* s.strip()
strip(s) ==
    LET first[i \in 1..(Len(s) + 1)] ==
            IF i > Len(s) THEN 0 ELSE IF ~IsSpace(s[i]) THEN i ELSE first[i + 1]
        last[i \in 0..Len(s)] ==
            IF i = 0 THEN 0 ELSE IF ~IsSpace(s[i]) THEN i ELSE last[i - 1]
    IN  IF first[1] = 0 THEN <<>> ELSE SubSeq(s, first[1], last[Len(s)])

\* s.replace(old, new) for one-character old and new
replace(s, old, new) ==
    Seq1([i \in 1..Len(s) |-> IF s[i] = old THEN new ELSE s[i]])

\* s.title(): a cased character is upper-cased when it follows an uncased
\* one (or starts the string) and lower-cased otherwise
title(s) ==
    Seq1([i \in 1..Len(s) |->
        IF i > 1 /\ IsCased(s[i - 1]) THEN LowerChar(s[i]) ELSE UpperChar(s[i])])

\* s.find(sep): the first position that holds sep, 0 if none
find(s, sep) ==
    IF contains(s, sep)
    THEN CHOOSE i \in 1..Len(s) : s[i] = sep /\ \A j \in 1..(i - 1) : s[j] # sep
    ELSE 0

\* s.split(sep) for a one-character sep: always at least one piece
RECURSIVE split(_, _)
split(s, sep) ==
    LET k == find(s, sep)
    IN  IF k = 0 THEN <<s>>
        ELSE <<SubSeq(s, 1, k - 1)>> \o split(SubSeq(s, k + 1, Len(s)), sep)

\* len(s.split()): the number of maximal runs of non-space characters
words(s) ==
    Cardinality({i \in 1..Len(s) :
                    ~IsSpace(s[i]) /\ (i = 1 \/ IsSpace(s[i - 1]))})

\* any(p(prefix) for prefix in prefixes)
anyprefix(s, prefixes) == \E k \in 1..Len(prefixes) : startswith(s, prefixes[k])

\* [prefix.upper() for prefix in prefixes]
upperall(prefixes) == Seq1([k \in 1..Len(prefixes) |-> upper(prefixes[k])])

\* any(s.upper().startswith(prefix.upper()) for prefix in prefixes), given
\* the upper-cased prefixes
anyprefixupper(s, upperprefixes) ==
    \E u \in {upper(s)} :
        \E k \in 1..Len(upperprefixes) : startswith(u, upperprefixes[k])

(***************************************************************************)
(* Prefix tables of extract_headings_from_text                             *)
(***************************************************************************)
Digits == <<"1","2","3","4","5","6","7","8","9">>

\* 'Table of Contents', 'Contents', 'Revision History', 'Acknowledgements',
\* 'Abstract', 'Summary', 'Overview', 'Introduction', 'Conclusion',
\* 'References', 'Bibliography'
TocIndicators == <<
    <<"T","a","b","l","e"," ","o","f"," ","C","o","n","t","e","n","t","s">>,
    <<"C","o","n","t","e","n","t","s">>,
    <<"R","e","v","i","s","i","o","n"," ","H","i","s","t","o","r","y">>,
    <<"A","c","k","n","o","w","l","e","d","g","e","m","e","n","t","s">>,
    <<"A","b","s","t","r","a","c","t">>,
    <<"S","u","m","m","a","r","y">>,
    <<"O","v","e","r","v","i","e","w">>,
    <<"I","n","t","r","o","d","u","c","t","i","o","n">>,
    <<"C","o","n","c","l","u","s","i","o","n">>,
    <<"R","e","f","e","r","e","n","c","e","s">>,
    <<"B","i","b","l","i","o","g","r","a","p","h","y">> >>

sChapter == <<"C","h","a","p","t","e","r">>

sSection == <<"S","e","c","t","i","o","n">>

sPart == <<"P","a","r","t">>

sAppendix == <<"A","p","p","e","n","d","i","x">>

\* 'Chapter', 'Section', 'Part', 'Appendix'
ChapterIndicators == <<sChapter, sSection, sPart, sAppendix>>

\* '1.', ..., '9.', '1 ', ..., '9 '
NumberedSections ==
    Seq1([k \in 1..18 |-> IF k <= 9 THEN <<Digits[k], ".">> ELSE <<Digits[k - 9], " ">>])

\* '1.1', ..., '1.9', '2.1', ..., '4.9'
Subsections ==
    Seq1([k \in 1..36 |->
             <<Digits[((k - 1) \div 9) + 1], ".", Digits[((k - 1) % 9) + 1]>>])

\* 'Chapter', 'Part' and the table-of-contents indicators: the H1 keywords
H1Keywords == <<sChapter, sPart>> \o TocIndicators

UpperTocIndicators == upperall(TocIndicators)

UpperChapterIndicators == upperall(ChapterIndicators)

UpperH1Keywords == upperall(H1Keywords)

MaxHeadings == 50

MaxLineLen == 200

MaxTitleLen == 100

(***************************************************************************)
(* extract_headings_from_text                                              *)
(***************************************************************************)
\* the line as the heuristics see it: a trailing period is cut off
clean(line) ==
    IF endswith(line, <<".">>) THEN strip(SubSeq(line, 1, Len(line) - 1)) ELSE line

is_heading(clean_line) ==
    /\ Len(clean_line) < MaxLineLen
    /\ ~endswith(clean_line, <<".">>)
    /\ \/ anyprefixupper(clean_line, UpperTocIndicators)
       \/ anyprefix(clean_line, NumberedSections)
       \/ anyprefix(clean_line, Subsections)
       \/ anyprefixupper(clean_line, UpperChapterIndicators)
       \/ (isupper(clean_line) /\ Len(clean_line) < 100)
       \/ (words(clean_line) <= 10 /\ contains(clean_line, ":"))

heading_level(clean_line) ==
    IF anyprefixupper(clean_line, UpperH1Keywords) THEN "H1"
    ELSE IF anyprefix(clean_line, NumberedSections) THEN "H1"
    ELSE IF anyprefix(clean_line, Subsections) THEN "H2"
    ELSE IF isupper(clean_line) /\ Len(clean_line) < 50 THEN "H1"
    ELSE "H2"

\* the page counted from 0, as enumerate() gives it
PageNumberZeroBased(page_num) == page_num

\* enumerate() counts pages from 0; the entry carries page_num + 1
PageNumber(page_num) == page_num + 1

\* the limit tested one entry late
LimitReachedLate(outline) == Len(outline) > MaxHeadings + 1

\* if len(outline) > 50: break
LimitReached(outline) == Len(outline) > MaxHeadings

\* The inner loop over the lines of one page, from line i on.  acc.outline is
\* the outline so far; acc.afterLimit counts the lines and pages visited when
\* the limit had already been reached.
RECURSIVE ScanLines(_, _, _, _)
ScanLines(lines, i, page_num, acc) ==
    IF i > Len(lines) THEN acc
    ELSE LET seen == [acc EXCEPT !.afterLimit =
                         IF Len(acc.outline) > MaxHeadings THEN @ + 1 ELSE @]
             line == strip(lines[i])
             clean_line == clean(line)
         IN  IF line = <<>> \/ Len(line) < 3
             THEN ScanLines(lines, i + 1, page_num, seen)
             ELSE IF ~is_heading(clean_line)
             THEN ScanLines(lines, i + 1, page_num, seen)
             ELSE LET out == [seen EXCEPT !.outline = Append(@,
                                 [level |-> heading_level(clean_line),
                                  text  |-> strip(clean_line),
                                  page  |-> PageNumber(page_num)])]
                  IN  IF LimitReached(out.outline) THEN out
                      ELSE ScanLines(lines, i + 1, page_num, out)

\* The outer loop over the pages, from page p (1-based here, page_num = p - 1).
\* A page whose extract_text() raises ends the loop through the except
\* clause: exc records that, and at reports the page.
RECURSIVE ScanPages(_, _, _)
ScanPages(pages, p, acc) ==
    IF p > Len(pages) THEN acc
    ELSE LET seen == [acc EXCEPT !.afterLimit =
                         IF Len(acc.outline) > MaxHeadings THEN @ + 1 ELSE @]
         IN  IF pages[p].textFails THEN [seen EXCEPT !.exc = TRUE, !.at = p]
             ELSE IF pages[p].text = <<>> THEN ScanPages(pages, p + 1, seen)
             ELSE LET r == ScanLines(split(pages[p].text, "\n"), 1, p - 1, seen)
                  IN  IF LimitReached(r.outline) THEN r
                      ELSE ScanPages(pages, p + 1, r)

NoScan == [outline |-> <<>>, afterLimit |-> 0, exc |-> FALSE, at |-> 0]

\* the scan without its try: the exception of an unreadable page leaves
extract_headings_from_text_no_try(pdf_reader) ==
    LET r == ScanPages(pdf_reader.pages, 1, NoScan)
    IN  [outline |-> r.outline, raised |-> r.exc,
         caught |-> 0, afterLimit |-> r.afterLimit]

\* try: ... except Exception: print(...); return outline
\* raised: an exception left the function (never: the except clause covers
\* the whole scan); caught: the page at which the scan was cut short.
extract_headings_from_text(pdf_reader) ==
    LET r == ScanPages(pdf_reader.pages, 1, NoScan)
    IN  [outline |-> r.outline, raised |-> FALSE,
         caught |-> IF r.exc THEN r.at ELSE 0, afterLimit |-> r.afterLimit]

(***************************************************************************)
(* Results.  Every function returns the dict it builds (title, outline)    *)
(* together with what happened on the way:                                 *)
(*   raised     an exception left the function                             *)
(*   failed     the backend's except clause built the result               *)
(*   heuristic  which heuristic built the outline ("none": bookmarks or    *)
(*              TOC, or no outline at all)                                 *)
(*   caught     the page at which a heuristic's own except clause cut the  *)
(*              scan short (0: it did not)                                 *)
(*   afterLimit lines and pages visited after the heading limit            *)
(***************************************************************************)
Result(t, o, h, c, a) ==
    [title |-> t, outline |-> o, raised |-> FALSE, failed |-> FALSE,
     heuristic |-> h, caught |-> c, afterLimit |-> a]

Raise == [Result(<<>>, <<>>, "none", 0, 0) EXCEPT !.raised = TRUE]

\* pdf_path.stem.replace('_', ' ').replace('-', ' ')
stem_words(stem) == replace(replace(stem, "_", " "), "-", " ")

extract_pdf_fallback(stem) ==
    [Result(title(stem_words(stem)), <<>>, "none", 0, 0) EXCEPT !.failed = TRUE]

\* lines = [line.strip() for line in text.split('\n') if line.strip()]
nonblank_lines(text) ==
    LET all == split(text, "\n")
    IN  SelectSeq([i \in 1..Len(all) |-> strip(all[i])], LAMBDA l : l # <<>>)

\* the first non-blank line, not cut
first_line_uncut(text) ==
    IF text = <<>> \/ nonblank_lines(text) = <<>> THEN <<>>
    ELSE nonblank_lines(text)[1]

\* the first non-blank line of the text, cut to 100 characters ('' if none)
first_line(text) ==
    IF text = <<>> \/ nonblank_lines(text) = <<>> THEN <<>>
    ELSE Cut(nonblank_lines(text)[1], MaxTitleLen)

(***************************************************************************)
(* process_pypdf2_outline                                                  *)
(***************************************************************************)
MaxLevel == 6

\* the level without the cap
HeadingLevelUncapped(level) == "H" \o ToString(level)

\* f"H{min(level, 6)}"
HeadingLevel(level) == "H" \o ToString(Min(level, MaxLevel))

\* item.page.idnum when the bookmark has a page and the page has an idnum
bookmark_page(item) == IF item.page.kind = "ref" THEN item.page.idnum ELSE 1

\* A bookmark without a title makes title_text.strip() raise: the item's own
\* except clause drops it.
RECURSIVE process_pypdf2_outline(_, _)
process_pypdf2_outline(outline, level) ==
    IF outline = <<>> THEN <<>>
    ELSE LET item == Head(outline)
             here == IF item.kind = "list"
                       THEN process_pypdf2_outline(item.items, level + 1)
                     ELSE IF ~item.hasTitle THEN <<>>
                     ELSE << [level |-> HeadingLevel(level),
                              text  |-> strip(item.title),
                              page  |-> bookmark_page(item)] >>
         IN  here \o process_pypdf2_outline(Tail(outline), level)

(***************************************************************************)
(* extract_with_pypdf2                                                     *)
(***************************************************************************)
\* pdf_reader.metadata.title.strip()[:100], '' without metadata or title
pypdf2_meta_title(doc) ==
    IF doc.hasMeta /\ doc.metaTitle # <<>>
    THEN Cut(strip(doc.metaTitle), MaxTitleLen) ELSE <<>>

\* an except clause that returns what the try block had built so far
pypdf2_except_partial(stem, title_so_far, outline_so_far) ==
    [Result(title_so_far, outline_so_far, "none", 0, 0) EXCEPT !.failed = TRUE]

\* except Exception as e: print(...); return extract_pdf_fallback(pdf_path)
pypdf2_except(stem, title_so_far, outline_so_far) == extract_pdf_fallback(stem)

\* The statements of the try block run in order; the first that raises hands
\* over to the except clause, with the title and outline set by then.
extract_with_pypdf2(stem, doc) ==
    LET title0 == pypdf2_meta_title(doc)
        outline0 == IF doc.outline # <<>>
                    THEN process_pypdf2_outline(doc.outline, 1) ELSE <<>>
        readFirst == title0 = <<>> /\ Len(doc.pages) > 0
        title1 == IF readFirst THEN first_line(doc.pages[1].text) ELSE title0
        heads == extract_headings_from_text(doc)
        title2 == IF title1 = <<>> THEN stem_words(stem) ELSE title1
    IN  IF doc.openFails THEN pypdf2_except(stem, <<>>, <<>>)
        ELSE IF doc.tocFails THEN pypdf2_except(stem, title0, <<>>)
        ELSE IF readFirst /\ doc.pages[1].textFails
        THEN pypdf2_except(stem, title0, outline0)
        ELSE IF outline0 = <<>> /\ heads.raised
        THEN pypdf2_except(stem, title1, outline0)
        ELSE IF outline0 # <<>> THEN Result(title2, outline0, "none", 0, 0)
        ELSE Result(title2, heads.outline, "text", heads.caught, heads.afterLimit)

(***************************************************************************)
(* extract_with_pdfplumber                                                 *)
(***************************************************************************)
sIntroduction == <<"I","n","t","r","o","d","u","c","t","i","o","n">>

sConclusion == <<"C","o","n","c","l","u","s","i","o","n">>

plumber_is_heading(line) ==
    /\ Len(line) < 100
    /\ \/ isupper(line)
       \/ anyprefix(line, <<sChapter, sSection, sPart, sIntroduction, sConclusion>>)
       \/ endswith(line, <<":">>)
       \/ (words(line) <= 8 /\ ~endswith(line, <<".">>))

plumber_level(line) ==
    IF anyprefix(line, <<sChapter, sPart>>) THEN "H1"
    ELSE IF anyprefix(line, <<sSection>>) THEN "H2"
    ELSE IF isupper(line) THEN "H2"
    ELSE "H3"

\* the headings of one page's lines, in line order
RECURSIVE PlumberLines(_, _, _)
PlumberLines(lines, i, page_num) ==
    IF i > Len(lines) THEN <<>>
    ELSE LET line == strip(lines[i])
             here == IF line # <<>> /\ Len(line) > 3 /\ plumber_is_heading(line)
                     THEN << [level |-> plumber_level(line), text |-> line,
                              page |-> PageNumber(page_num)] >>
                     ELSE <<>>
         IN  here \o PlumberLines(lines, i + 1, page_num)

\* the loop over the pages, from page p: a page without chars is skipped
\* before its text is read
RECURSIVE PlumberPages(_, _)
PlumberPages(pages, p) ==
    IF p > Len(pages) THEN <<>>
    ELSE LET lines == IF pages[p].hasChars /\ pages[p].text # <<>>
                      THEN split(pages[p].text, "\n") ELSE <<>>
         IN  PlumberLines(lines, 1, p - 1) \o PlumberPages(pages, p + 1)

extract_with_pdfplumber(stem, doc) ==
    LET title0 == IF Len(doc.pages) > 0 THEN first_line(doc.pages[1].text) ELSE <<>>
        title1 == IF title0 = <<>> THEN stem ELSE title0
    IN  IF \/ doc.openFails
           \/ (Len(doc.pages) > 0 /\ doc.pages[1].textFails)
           \/ \E p \in 1..Len(doc.pages) :
                  doc.pages[p].hasChars /\ doc.pages[p].textFails
        THEN extract_pdf_fallback(stem)
        ELSE Result(title1, PlumberPages(doc.pages, 1), "plumber", 0, 0)

(***************************************************************************)
(* analyze_text_formatting                                                 *)
(***************************************************************************)
\* the spans of one page that pass the length filter, with their page
page_blocks(page, page_num) ==
    LET kept == SelectSeq(page.spans,
                    LAMBDA sp : strip(sp.text) # <<>> /\ Len(strip(sp.text)) > 3)
    IN  [i \in 1..Len(kept) |->
            [text |-> strip(kept[i].text), size |-> kept[i].size,
             flags |-> kept[i].flags, page |-> PageNumber(page_num)]]

RECURSIVE CollectBlocks(_, _)
CollectBlocks(pages, p) ==
    IF p > Len(pages) THEN <<>>
    ELSE page_blocks(pages[p], p - 1) \o CollectBlocks(pages, p + 1)

\* sum(sizes), added up by halves
RECURSIVE SumSizes(_)
SumSizes(blocks) ==
    IF blocks = <<>> THEN 0
    ELSE IF Len(blocks) = 1 THEN blocks[1].size
    ELSE SumSizes(SubSeq(blocks, 1, Len(blocks) \div 2))
         + SumSizes(SubSeq(blocks, (Len(blocks) \div 2) + 1, Len(blocks)))

\* flags & 2**4
is_bold(flags) == (flags \div 16) % 2 = 1

\* size > avg_size * f, with avg_size = total / n and f = tenths / 10
larger(size, total, n, tenths) == size * n * 10 > total * tenths

formatting_is_heading(block, total, n) ==
    \/ is_bold(block.flags)
    \/ larger(block.size, total, n, 12)
    \/ isupper(block.text)
    \/ anyprefix(block.text, <<sChapter, sSection, sPart>>)

formatting_level(block, total, n) ==
    IF larger(block.size, total, n, 15) THEN "H1"
    ELSE IF larger(block.size, total, n, 13) THEN "H2"
    ELSE IF larger(block.size, total, n, 11) THEN "H3"
    ELSE "H4"

\* the loop over all_blocks: the blocks that are not too long and look like a
\* heading, each with its level, in the order of all_blocks
DetectHeadings(blocks, total, n) ==
    LET kept == SelectSeq(blocks, LAMBDA block :
                    Len(block.text) <= MaxLineLen
                    /\ formatting_is_heading(block, total, n))
    IN  Seq1([i \in 1..Len(kept) |->
                 [level |-> formatting_level(kept[i], total, n),
                  text |-> kept[i].text, page |-> kept[i].page]])

\* the first page whose get_text("dict") raises, 0 if none does
first_failing(pages) ==
    IF \E p \in 1..Len(pages) : pages[p].textFails
    THEN CHOOSE p \in 1..Len(pages) :
             pages[p].textFails /\ \A q \in 1..(p - 1) : ~pages[q].textFails
    ELSE 0

\* The blocks of all pages are collected before any heading is detected, so
\* a page that raises leaves the outline empty; the except clause returns it.
analyze_text_formatting(doc) ==
    LET all_blocks == CollectBlocks(doc.pages, 1)
        at == first_failing(doc.pages)
    IN  IF at # 0 THEN [outline |-> <<>>, raised |-> FALSE, caught |-> at]
        ELSE [outline |-> DetectHeadings(all_blocks, SumSizes(all_blocks),
                                         Len(all_blocks)),
              raised |-> FALSE, caught |-> 0]

(***************************************************************************)
(* extract_with_pymupdf                                                    *)
(***************************************************************************)
\* doc.metadata.get('title', '').strip()
pymupdf_meta_title(doc) == IF doc.hasMeta THEN strip(doc.metaTitle) ELSE <<>>

\* the entries of doc.get_toc(), each [level, title, page]
RECURSIVE toc_entries(_)
toc_entries(toc) ==
    IF toc = <<>> THEN <<>>
    ELSE << [level |-> HeadingLevel(Head(toc).level),
             text  |-> strip(Head(toc).title),
             page  |-> Head(toc).page] >> \o toc_entries(Tail(toc))

\* No try in this function: what raises here leaves it.
extract_with_pymupdf(stem, doc) ==
    LET title0 == pymupdf_meta_title(doc)
        readFirst == title0 = <<>> /\ Len(doc.pages) > 0
        title1 == IF readFirst THEN first_line(doc.pages[1].text) ELSE title0
        title2 == IF title1 = <<>> THEN stem ELSE title1
        fmt == analyze_text_formatting(doc)
    IN  IF \/ doc.openFails
           \/ (readFirst /\ doc.pages[1].textFails)
           \/ doc.tocFails
           \/ (doc.toc = <<>> /\ fmt.raised)
        THEN Raise
        ELSE IF doc.toc # <<>> THEN Result(title2, toc_entries(doc.toc), "none", 0, 0)
        ELSE Result(title2, fmt.outline, "formatting", fmt.caught, 0)

(***************************************************************************)
(* extract_pdf_outline                                                     *)
(***************************************************************************)
\* the except Exception clause of the PyMuPDF branch
pymupdf_error(stem) == [Result(stem, <<>>, "none", 0, 0) EXCEPT !.failed = TRUE]

\* a selection that goes on to the next backend when one fails
extract_pdf_outline_next_on_failure(stem, doc, libs) ==
    LET a == extract_with_pypdf2(stem, doc)
        b == extract_with_pdfplumber(stem, doc)
        c == extract_with_pymupdf(stem, doc)
        try1 == "PyPDF2" \in libs
        ok1 == try1 /\ ~a.failed
        try2 == "pdfplumber" \in libs /\ ~ok1
        ok2 == try2 /\ ~b.failed
        try3 == "fitz" \in libs /\ ~ok1 /\ ~ok2
    IN  [res |-> IF ok1 THEN a
                 ELSE IF ok2 THEN b
                 ELSE IF try3
                 THEN (IF c.raised THEN [Result(stem, <<>>, "none", 0, 0)
                                            EXCEPT !.failed = TRUE] ELSE c)
                 ELSE IF try2 THEN b
                 ELSE IF try1 THEN a
                 ELSE extract_pdf_fallback(stem),
         tried |-> (IF try1 THEN <<"PyPDF2">> ELSE <<>>) \o
                   (IF try2 THEN <<"pdfplumber">> ELSE <<>>) \o
                   (IF try3 THEN <<"fitz">> ELSE <<>>)]

\* libs: the modules whose import succeeds.  tried: the backends called.
extract_pdf_outline(stem, doc, libs) ==
    IF "PyPDF2" \in libs
    THEN [res |-> extract_with_pypdf2(stem, doc), tried |-> <<"PyPDF2">>]
    ELSE IF "pdfplumber" \in libs
    THEN [res |-> extract_with_pdfplumber(stem, doc), tried |-> <<"pdfplumber">>]
    ELSE IF "fitz" \in libs
    THEN LET r == extract_with_pymupdf(stem, doc)
         IN  [res |-> IF r.raised THEN pymupdf_error(stem) ELSE r,
              tried |-> <<"fitz">>]
    ELSE [res |-> extract_pdf_fallback(stem), tried |-> <<>>]

(***************************************************************************)
(* The PDFs the model reads.  A document is what the libraries report of a *)
(* file: whether opening it raises (openFails), whether reading its        *)
(* bookmarks raises (tocFails), its metadata title, its bookmarks as       *)
(* PyPDF2 nests them (outline) and as PyMuPDF lists them (toc), and its    *)
(* pages: the object number of the page (idnum), its text, whether reading *)
(* the text raises (textFails), whether it has characters (hasChars) and   *)
(* its font-attributed spans.                                              *)
(***************************************************************************)
ManyLines == 10

ManyPages == 7

DeepLevel == 7

MaxFiles == 2

\* '\n'.join(lines)
join(lines) ==
    LET joined[i \in 1..Len(lines)] ==
            IF i = 1 THEN lines[1] ELSE joined[i - 1] \o <<"\n">> \o lines[i]
    IN  IF lines = <<>> THEN <<>> ELSE joined[Len(lines)]

Span(t, size, flags) == [text |-> t, size |-> size, flags |-> flags]

\* a readable page whose spans are its lines, each with its size and flags
Page(idnum, spans) ==
    [idnum |-> idnum, text |-> join([i \in 1..Len(spans) |-> spans[i].text]),
     textFails |-> FALSE, hasChars |-> TRUE, spans |-> spans]

tMyPaper == <<" "," ","M","y"," ","P","a","p","e","r"," ">>

tScope == <<"2",".","3"," ","S","c","o","p","e">>

tBody == <<"T","h","i","s"," ","i","s"," ","b","o","d","y"," ","t","e","x","t",".">>

tMethods == <<"2","."," ","M","e","t","h","o","d","s">>

tResults == <<"R","E","S","U","L","T","S">>

tNote == <<"N","o","t","e",":"," ","s","e","e">>

tSectionA == <<"S","e","c","t","i","o","n"," ","A">>

tHeading == <<"1","."," ","A","b">>

tMyTitle == <<" ","M","y"," ","T","i","t","l","e"," "," ">>

tDeep == <<" ","D","e","e","p"," ">>

Long(c) == [i \in 1..(MaxTitleLen + 1) |-> c]

Page1 == Page(7, <<Span(tMyPaper, 24, 16), Span(sIntroduction, 18, 0),
                   Span(tScope, 14, 0), Span(tBody, 10, 0)>>)

Page2 == Page(12, <<Span(tMethods, 16, 0), Span(tResults, 10, 0),
                    Span(tNote, 10, 0), Span(tSectionA, 10, 0)>>)

Page3 == Page(15, <<Span(sChapter, 20, 0), Span(tBody, 10, 16)>>)

EmptyPage == [idnum |-> 3, text |-> <<>>, textFails |-> FALSE,
              hasChars |-> FALSE, spans |-> <<>>]

HeadingsPage(idnum) == Page(idnum, [i \in 1..ManyLines |-> Span(tHeading, 12, 0)])

Unreadable(page) == [page EXCEPT !.textFails = TRUE]

\* a bookmark of the document pages, pointing to page target (0: nowhere)
Bookmark(pages, t, target) ==
    [kind |-> "item", hasTitle |-> TRUE, title |-> t,
     page |-> IF target = 0 THEN [kind |-> "none", idnum |-> 0, target |-> 0]
              ELSE [kind |-> "ref", idnum |-> pages[target].idnum, target |-> target]]

\* bookmarks nested one below the other, at levels 1..DeepLevel
Chain(pages) ==
    LET below[level \in 1..DeepLevel] ==
            <<Bookmark(pages, tDeep, ((level - 1) % Len(pages)) + 1)>> \o
            (IF level < DeepLevel
             THEN << [kind |-> "list", items |-> below[level + 1]] >> ELSE <<>>)
    IN  below[1]

\* the same bookmarks as get_toc() lists them
ChainToc(pages) ==
    [l \in 1..DeepLevel |->
        [level |-> l, title |-> tDeep, page |-> ((l - 1) % Len(pages)) + 1]]

Base == [openFails |-> FALSE, tocFails |-> FALSE, hasMeta |-> TRUE,
         metaTitle |-> tMyTitle, outline |-> <<>>, toc |-> <<>>,
         pages |-> <<Page1, Page2>>]

ThreePages == <<Page1, Page2, Page3>>

OddOutline ==
    << [Bookmark(ThreePages, tScope, 2) EXCEPT !.hasTitle = FALSE],
       Bookmark(ThreePages, tNote, 0),
       [Bookmark(ThreePages, tResults, 3) EXCEPT
            !.page = [kind |-> "num", idnum |-> 0, target |-> 3]] >>

OddToc == << [level |-> 1, title |-> <<>>, page |-> 2],
             [level |-> 1, title |-> tNote, page |-> -1],
             [level |-> 1, title |-> tResults, page |-> 3] >>

Docs == <<
    Base,
    [Base EXCEPT !.hasMeta = FALSE],
    [Base EXCEPT !.metaTitle = <<" ", " ">>, !.pages = <<EmptyPage, Page2>>],
    [Base EXCEPT !.metaTitle = <<" ">> \o Long("x")],
    [Base EXCEPT !.hasMeta = FALSE,
                 !.pages = <<Page(7, <<Span(Long("y"), 12, 0)>>), Page2>>],
    [Base EXCEPT !.pages = ThreePages, !.outline = Chain(ThreePages),
                 !.toc = ChainToc(ThreePages)],
    [Base EXCEPT !.hasMeta = FALSE, !.pages = ThreePages,
                 !.outline = OddOutline, !.toc = OddToc],
    [Base EXCEPT !.outline = <<OddOutline[1]>>, !.toc = <<OddToc[1]>>],
    [Base EXCEPT !.openFails = TRUE],
    [Base EXCEPT !.tocFails = TRUE],
    [Base EXCEPT !.pages = <<Page1, Unreadable(Page2), Page3>>],
    [Base EXCEPT !.hasMeta = FALSE, !.pages = <<Unreadable(Page1), Page2>>],
    [Base EXCEPT !.pages = [p \in 1..ManyPages |-> HeadingsPage(3 * p)]],
    [Base EXCEPT !.hasMeta = FALSE, !.pages = <<>>],
    [Base EXCEPT !.hasMeta = FALSE,
                 !.pages = <<Page1, [Unreadable(Page2) EXCEPT !.hasChars = FALSE]>>],
    [Base EXCEPT !.metaTitle = <<>>, !.pages = <<Page2, EmptyPage, Page1>>] >>

(***************************************************************************)
(* process_pdfs                                                            *)
(***************************************************************************)
aPdf == [stem |-> <<"a">>, suffix |-> ".pdf"]

bPdf == [stem |-> <<"m","y","_","d","o","c","-","b">>, suffix |-> ".pdf"]

notes == [stem |-> <<"n","o","t","e","s">>, suffix |-> ".txt"]

FileNames == {aPdf, bPdf, notes}

Stems == {f.stem : f \in FileNames}

Libs == {"PyPDF2", "pdfplumber", "fitz"}

VARIABLES input_dir, libs, pc, pdf_files, idx, output, log

vars == <<input_dir, libs, pc, pdf_files, idx, output, log>>

\* every file of the directory, whatever its suffix
glob_all(dir) == dir

\* input_dir.glob("*.pdf")
glob(dir) == {f \in dir : f.suffix = ".pdf"}

\* the lists a set can be listed as
Listings(S) ==
    {l \in [1..Cardinality(S) -> S] : \A i, j \in 1..Cardinality(S) : l[i] = l[j] => i = j}

\* output[stem]: the records written to <stem>.json, in the order written.
\* log[stem]: what extracting <stem>.pdf did, <<>> before it is processed.
Init ==
    /\ input_dir \in {d \in SUBSET FileNames : Cardinality(d) <= MaxFiles}
    /\ libs \in SUBSET Libs
    /\ pc = "glob"
    /\ pdf_files = <<>>
    /\ idx = 1
    /\ output = [s \in Stems |-> <<>>]
    /\ log = [s \in Stems |-> <<>>]

\* pdf_files = list(input_dir.glob("*.pdf")); if not pdf_files: return
ListFiles ==
    /\ pc = "glob"
    /\ pdf_files' \in Listings(glob(input_dir))
    /\ pc' = IF pdf_files' = <<>> THEN "done" ELSE "loop"
    /\ UNCHANGED <<input_dir, libs, idx, output, log>>

\* extract_pdf_outline on every file name, document and set of importable
\* modules of the model
Extracted(stem, d, l) == extract_pdf_outline(stem, Docs[d], l)

\* json.dump(result, f): the record holds the title and the outline
dump(result) == [title |-> result.title, outline |-> result.outline]

\* One turn of the for loop: the file is read (the document d is what the
\* libraries find in it), the result or, when extract_pdf_outline raises,
\* the fallback_result is written to <stem>.json.
ProcessFile ==
    /\ pc = "loop"
    /\ idx <= Len(pdf_files)
    /\ \E d \in 1..Len(Docs) :
      \E r \in {Extracted(pdf_files[idx].stem, d, libs)} :
          LET stem == pdf_files[idx].stem
              record == IF r.res.raised THEN [title |-> stem, outline |-> <<>>]
                        ELSE dump(r.res)
          IN  /\ output' = [output EXCEPT ![stem] = Append(@, record)]
              /\ log' = [log EXCEPT ![stem] = Append(@,
                            [doc |-> d, tried |-> r.tried, raised |-> r.res.raised,
                             failed |-> r.res.failed \/ r.res.raised,
                             heuristic |-> r.res.heuristic, caught |-> r.res.caught,
                             afterLimit |-> r.res.afterLimit])]
    /\ idx' = idx + 1
    /\ pc' = IF idx = Len(pdf_files) THEN "done" ELSE "loop"
    /\ UNCHANGED <<input_dir, libs, pdf_files>>

Next == ListFiles \/ ProcessFile

Spec == Init /\ [][Next]_vars

(***************************************************************************)
(* Properties                                                              *)
(***************************************************************************)
Processed == {s \in Stems : log[s] # <<>>}

\* what extracting <s>.pdf did, the document read and the record on disk
Run(s) == log[s][Len(log[s])]

DocOf(s) == Docs[Run(s).doc]

Rec(s) == output[s][Len(output[s])]

PdfStems == {f.stem : f \in {g \in input_dir : g.suffix = ".pdf"}}

\* the titles that are derived from the file name alone
NameTitles(s) == {s, stem_words(s), title(stem_words(s))}

\* the bookmarks of a PyPDF2 outline in reading order, each with the page
\* number it points to (0: nowhere)
RECURSIVE Targets(_)
Targets(outline) ==
    IF outline = <<>> THEN <<>>
    ELSE (IF Head(outline).kind = "list" THEN Targets(Head(outline).items)
          ELSE <<Head(outline).page.target>>) \o Targets(Tail(outline))

\* C1: for a PDF with an embedded table of contents, every entry is emitted
\* and the page of each emitted entry is the 1-based number of the page the
\* entry points to, on the PyPDF2 bookmark path and on the PyMuPDF TOC path.
C1_TocEntriesWithPages ==
    \A s \in Processed :
        /\ (Run(s).tried = <<"PyPDF2">> /\ ~Run(s).failed /\ DocOf(s).outline # <<>>)
            => /\ Len(Rec(s).outline) = Len(Targets(DocOf(s).outline))
               /\ \A i \in 1..Len(Rec(s).outline) :
                      Targets(DocOf(s).outline)[i] # 0
                          => Rec(s).outline[i].page = Targets(DocOf(s).outline)[i]
        /\ (Run(s).tried = <<"fitz">> /\ ~Run(s).failed /\ DocOf(s).toc # <<>>)
            => /\ Len(Rec(s).outline) = Len(DocOf(s).toc)
               /\ \A i \in 1..Len(Rec(s).outline) :
                      Rec(s).outline[i].page = DocOf(s).toc[i].page

\* C2: a file whose extraction fails gets a record with an empty outline and
\* a title derived from its name, and the loop goes on: the files before idx
\* are exactly the processed ones, and at the end every file has a record.
C2_FailureIsCaught ==
    /\ \A s \in Processed :
           /\ Run(s).failed
               => Rec(s).outline = <<>> /\ Rec(s).title \in NameTitles(s)
           /\ (DocOf(s).openFails /\ Run(s).tried # <<>>) => Run(s).failed
    /\ pc = "loop" => idx <= Len(pdf_files)
    /\ pc # "glob" =>
           Processed = {pdf_files[i].stem : i \in 1..(idx - 1)}
    /\ pc = "done" => idx = Len(pdf_files) + 1

C2_Witness ==
    /\ pc = "done"
    /\ Len(pdf_files) = 2
    /\ Run(pdf_files[1].stem).failed
    /\ DocOf(pdf_files[1].stem).tocFails
    /\ ~Run(pdf_files[2].stem).failed
    /\ Rec(pdf_files[2].stem).outline # <<>>

C4_LevelsH1toH6 ==
    \A s \in Stems : \A k \in 1..Len(output[s]) :
        \A i \in 1..Len(output[s][k].outline) :
            output[s][k].outline[i].level \in {"H1", "H2", "H3", "H4", "H5", "H6"}

C4_Witness ==
    \E s \in Processed :
        /\ Run(s).tried = <<"fitz">>
        /\ \E i \in 1..Len(DocOf(s).toc) :
               /\ DocOf(s).toc[i].level > MaxLevel
               /\ Len(Rec(s).outline) >= i
               /\ Rec(s).outline[i].level = "H6"

\* the metadata title as the backends read it, stripped
MetaTitle(doc) == IF doc.hasMeta THEN strip(doc.metaTitle) ELSE <<>>

\* the document gets as far as the text heuristic of the PyPDF2 backend
ReachesTextHeuristic(s) ==
    /\ Run(s).tried = <<"PyPDF2">>
    /\ ~DocOf(s).openFails /\ ~DocOf(s).tocFails
    /\ \A i \in 1..Len(DocOf(s).outline) :
           DocOf(s).outline[i].kind = "item" /\ ~DocOf(s).outline[i].hasTitle
    /\ (MetaTitle(DocOf(s)) = <<>> /\ DocOf(s).pages # <<>>)
           => ~DocOf(s).pages[1].textFails

\* the document gets as far as the formatting heuristic of the PyMuPDF backend
ReachesFormattingHeuristic(s) ==
    /\ Run(s).tried = <<"fitz">>
    /\ ~DocOf(s).openFails /\ ~DocOf(s).tocFails
    /\ DocOf(s).toc = <<>>
    /\ (MetaTitle(DocOf(s)) = <<>> /\ DocOf(s).pages # <<>>)
           => ~DocOf(s).pages[1].textFails

FirstUnreadable(s) == first_failing(DocOf(s).pages)

\* C5: the heading heuristics let no exception escape: whatever page fails,
\* the backend still returns its own result, with a title and the outline
\* collected before the failure (for the formatting heuristic, none).
C5_HeuristicsNeverRaise ==
    \A s \in Processed :
        /\ ReachesTextHeuristic(s) =>
               /\ ~Run(s).failed /\ ~Run(s).raised
               /\ Run(s).heuristic = "text"
               /\ Run(s).caught = FirstUnreadable(s)
               /\ Rec(s).title # <<>>
               /\ FirstUnreadable(s) # 0 =>
                      Rec(s).outline =
                          ScanPages(SubSeq(DocOf(s).pages, 1, FirstUnreadable(s) - 1),
                                    1, NoScan).outline
        /\ ReachesFormattingHeuristic(s) =>
               /\ ~Run(s).failed /\ ~Run(s).raised
               /\ Run(s).heuristic = "formatting"
               /\ Run(s).caught = FirstUnreadable(s)
               /\ Rec(s).title # <<>>
               /\ FirstUnreadable(s) # 0 => Rec(s).outline = <<>>

C5_Witness ==
    \E s \in Processed :
        /\ ReachesTextHeuristic(s)
        /\ FirstUnreadable(s) = 2
        /\ Len(Rec(s).outline) >= 1

\* the backend that is called: the first importable one, in the fixed order
FirstImportable ==
    IF "PyPDF2" \in libs THEN <<"PyPDF2">>
    ELSE IF "pdfplumber" \in libs THEN <<"pdfplumber">>
    ELSE IF "fitz" \in libs THEN <<"fitz">>
    ELSE <<>>

\* C6: exactly one backend is called per file, the first importable one in
\* the order PyPDF2, pdfplumber, PyMuPDF, also when it fails on the file (the
\* record is then the file-name fallback); without any, the record is the
\* file-name fallback with an empty outline.
C6_OneBackendInOrder ==
    \A s \in Processed :
        /\ Run(s).tried = FirstImportable
        /\ (Run(s).tried # <<>> /\ DocOf(s).openFails)
               => Rec(s).outline = <<>> /\ Rec(s).title \in NameTitles(s)
        /\ Run(s).tried = <<>>
               => Rec(s) = [title |-> title(stem_words(s)), outline |-> <<>>]

C6_Witness ==
    \E s \in Processed :
        /\ libs = Libs
        /\ DocOf(s).openFails
        /\ Run(s).tried = <<"PyPDF2">>
        /\ Rec(s).outline = <<>>

\* C7: in extract_headings_from_text a heading that starts with a two-level
\* number X.Y (X in 1..4, Y in 1..9) and with no H1 keyword is H2, and one
\* that starts with a one-level number ('2.' or '2 ') is H1.
C7_SubsectionIsH2 ==
    \A s \in Processed :
        Run(s).heuristic = "text" =>
            \A i \in 1..Len(Rec(s).outline) :
                LET e == Rec(s).outline[i]
                IN  IF anyprefixupper(e.text, UpperH1Keywords) THEN TRUE
                    ELSE IF anyprefix(e.text, Subsections) THEN e.level = "H2"
                    ELSE IF anyprefix(e.text, NumberedSections) THEN e.level = "H1"
                    ELSE TRUE

\* C8 as stated: extract_headings_from_text returns at most 50 headings.
C8_AtMost50 ==
    \A s \in Processed :
        Run(s).heuristic = "text" => Len(Rec(s).outline) <= MaxHeadings

\* C8: extract_headings_from_text returns at most 51 headings (the limit is
\* tested after the append, with > 50), and once the 51st is appended no
\* further line and no further page is visited.
C8_AtMost51 ==
    \A s \in Processed :
        Run(s).heuristic = "text" =>
            /\ Len(Rec(s).outline) <= MaxHeadings + 1
            /\ Run(s).afterLimit = 0

\* the number of lines of the pages' text
RECURSIVE LineCount(_)
LineCount(pages) ==
    IF pages = <<>> THEN 0
    ELSE Len(split(Head(pages).text, "\n")) + LineCount(Tail(pages))

C8_Witness ==
    \E s \in Processed :
        /\ Run(s).heuristic = "text"
        /\ Len(Rec(s).outline) = MaxHeadings + 1
        /\ Rec(s).outline[MaxHeadings + 1].page < Len(DocOf(s).pages)
        /\ LineCount(DocOf(s).pages) > MaxHeadings + 1

\* the text of the entry comes from the page the entry names
FromPage(s, e) ==
    LET page == DocOf(s).pages[e.page]
        lines == split(page.text, "\n")
    IN  CASE Run(s).heuristic = "text" ->
                 \E k \in 1..Len(lines) : strip(clean(strip(lines[k]))) = e.text
          [] Run(s).heuristic = "plumber" ->
                 \E k \in 1..Len(lines) : strip(lines[k]) = e.text
          [] OTHER ->
                 \E k \in 1..Len(page.spans) : strip(page.spans[k].text) = e.text

\* C9: the outlines of the heuristic paths are in document order: the page
\* of an entry is the 1-based index of the page its line was read from, and
\* the pages never decrease along the outline.
C9_DocumentOrder ==
    \A s \in Processed :
        Run(s).heuristic \in {"text", "plumber", "formatting"} =>
            \A i \in 1..Len(Rec(s).outline) :
                /\ Rec(s).outline[i].page \in 1..Len(DocOf(s).pages)
                /\ FromPage(s, Rec(s).outline[i])
                /\ i > 1 => Rec(s).outline[i - 1].page <= Rec(s).outline[i].page

C9_Witness ==
    \E s \in Processed :
        /\ Run(s).heuristic = "text"
        /\ Len(Rec(s).outline) >= 2
        /\ Rec(s).outline[1].text = tMethods
        /\ Rec(s).outline[1].page = 1
        /\ \E j \in 2..Len(Rec(s).outline) :
               Rec(s).outline[j].text = sIntroduction /\ Rec(s).outline[j].page = 3

\* the first line of the first page that is not blank, stripped ('' if the
\* document has no page or the page no such line)
FirstNonBlank(doc) ==
    IF doc.pages = <<>> THEN <<>>
    ELSE LET lines == split(doc.pages[1].text, "\n")
             full == {k \in 1..Len(lines) : strip(lines[k]) # <<>>}
         IN  IF full = {} THEN <<>>
             ELSE strip(lines[CHOOSE k \in full : \A j \in full : k <= j])

Prefix(t, n) == [i \in 1..(IF Len(t) < n THEN Len(t) ELSE n) |-> t[i]]

\* C10 as stated: in the PyPDF2 and PyMuPDF backends the title is not empty,
\* and is the stripped metadata title when that is not blank, otherwise the
\* first non-blank line of the first page cut to 100 characters, otherwise a
\* title derived from the file name.
C10_TitlePriority ==
    \A s \in Processed :
        Run(s).tried \in {<<"PyPDF2">>, <<"fitz">>} =>
            /\ Rec(s).title # <<>>
            /\ IF MetaTitle(DocOf(s)) # <<>>
                 THEN Rec(s).title = MetaTitle(DocOf(s))
               ELSE IF FirstNonBlank(DocOf(s)) # <<>>
                 THEN Rec(s).title = Prefix(FirstNonBlank(DocOf(s)), MaxTitleLen)
               ELSE Rec(s).title \in NameTitles(s)

\* C10: as above for the results a backend returns itself, with the metadata
\* title cut to 100 characters in the PyPDF2 backend; the result of a backend
\* that failed carries a title derived from the file name instead.
C10_TitlePriorityOfResults ==
    \A s \in Processed :
        Run(s).tried \in {<<"PyPDF2">>, <<"fitz">>} =>
            /\ Rec(s).title # <<>>
            /\ IF Run(s).failed THEN Rec(s).title \in NameTitles(s)
               ELSE IF MetaTitle(DocOf(s)) # <<>>
                 THEN Rec(s).title =
                          IF Run(s).tried = <<"PyPDF2">>
                          THEN Prefix(MetaTitle(DocOf(s)), MaxTitleLen)
                          ELSE MetaTitle(DocOf(s))
               ELSE IF FirstNonBlank(DocOf(s)) # <<>>
                 THEN Rec(s).title = Prefix(FirstNonBlank(DocOf(s)), MaxTitleLen)
               ELSE Rec(s).title \in NameTitles(s)

C10_Witness ==
    \E s \in Processed :
        /\ Run(s).tried = <<"PyPDF2">>
        /\ ~Run(s).failed
        /\ MetaTitle(DocOf(s)) = <<>>
        /\ Len(FirstNonBlank(DocOf(s))) > MaxTitleLen
        /\ Len(Rec(s).title) = MaxTitleLen

====
